---- MODULE Spec2Model ----
(***************************************************************************)
(* Model of the run-multi command of conduit (cli/cmd, runMulti): the      *)
(* validation of the flags, the construction of the per-instance           *)
(* configurations, the signal listener, and the aggregation of the result  *)
(* of MultiService.Run.                                                    *)
(*                                                                         *)
(* Go strings are modelled as sequences of one-character strings, so that  *)
(* fmt.Sprintf, filepath.Ext and filepath.Join are computed, not assumed.  *)
(***************************************************************************)
EXTENDS Integers, Sequences, FiniteSets, TLC

(***************************************************************************)
(* Bounds of the model and constants of the program.                       *)
(***************************************************************************)
\* runMulti accepts 1..MaxInstances instances (line 80).
MinInstances == 1
MaxInstances == 32
\* Largest instance count whose instances are actually run under Spec.
MaxRunInstances == 2
\* Number of termination signals the environment delivers in one run.
MaxSignals == 2
\* Capacity of sigChan (line 143).
SigChanCap == 1
\* Largest instance count under SpecShared.
MaxSharedInstances == 3
\* Number of metric registrations requested in one process.
MaxRegistrations == 3

(***************************************************************************)
(* Strings.                                                                *)
(***************************************************************************)
DigitChar == <<"0", "1", "2", "3", "4", "5", "6", "7", "8", "9">>

\* fmt's %d verb for a non-negative int.
RECURSIVE Dec(_)
Dec(n) ==
    IF n < 10 THEN <<DigitChar[n + 1]>>
    ELSE Dec(n \div 10) \o <<DigitChar[(n % 10) + 1]>>

\* fmt.Sprintf("instance-%d", i)
SprintfInstanceDir(i) ==
    <<"i", "n", "s", "t", "a", "n", "c", "e", "-">> \o Dec(i)

\* fmt.Sprintf("%s-instance-%d%s", base, i, ext)
SprintfStatsName(base, i, ext) ==
    base \o <<"-", "i", "n", "s", "t", "a", "n", "c", "e", "-">> \o Dec(i) \o ext

\* filepath.Ext: the suffix beginning at the final dot of the final element.
RECURSIVE ExtFrom(_, _)
ExtFrom(path, i) ==
    IF i < 1 \/ path[i] = "/" THEN <<>>
    ELSE IF path[i] = "." THEN SubSeq(path, i, Len(path))
    ELSE ExtFrom(path, i - 1)

\* An extension that is never found.
ExtNone(path) == <<>>

Ext(path) == ExtFrom(path, Len(path))

\* pattern[:len(pattern)-len(ext)]
StemOf(pattern, ext) == SubSeq(pattern, 1, Len(pattern) - Len(ext))

\* The elements of a path between its separators (empty elements included).
RECURSIVE SplitSep(_, _, _)
SplitSep(s, cur, acc) ==
    IF s = <<>> THEN Append(acc, cur)
    ELSE IF Head(s) = "/" THEN SplitSep(Tail(s), <<>>, Append(acc, cur))
    ELSE SplitSep(Tail(s), Append(cur, Head(s)), acc)

\* filepath.Clean's pass over the elements: drops empty and "." elements,
\* lets ".." remove the element before it, drops ".." at the root.
RECURSIVE CleanElems(_, _, _)
CleanElems(elems, stack, rooted) ==
    IF elems = <<>> THEN stack
    ELSE LET e == Head(elems)
             rest == Tail(elems)
         IN  IF e = <<>> \/ e = <<".">> THEN CleanElems(rest, stack, rooted)
             ELSE IF e = <<".", ".">>
                  THEN IF stack # <<>> /\ stack[Len(stack)] # <<".", ".">>
                       THEN CleanElems(rest, SubSeq(stack, 1, Len(stack) - 1), rooted)
                       ELSE IF rooted THEN CleanElems(rest, stack, rooted)
                       ELSE CleanElems(rest, Append(stack, e), rooted)
             ELSE CleanElems(rest, Append(stack, e), rooted)

RECURSIVE JoinSep(_)
JoinSep(elems) ==
    IF elems = <<>> THEN <<>>
    ELSE IF Len(elems) = 1 THEN elems[1]
    ELSE elems[1] \o <<"/">> \o JoinSep(Tail(elems))

\* filepath.Clean
Clean(path) ==
    IF path = <<>> THEN <<".">>
    ELSE LET rooted == path[1] = "/"
             out == (IF rooted THEN <<"/">> ELSE <<>>)
                        \o JoinSep(CleanElems(SplitSep(path, <<>>, <<>>), <<>>, rooted))
         IN  IF out = <<>> THEN <<".">> ELSE out

\* filepath.Join of two elements: empty elements are ignored, the rest are
\* joined by the separator and cleaned.
Join(a, b) ==
    IF a = <<>> /\ b = <<>> THEN <<>>
    ELSE IF a = <<>> THEN Clean(b)
    ELSE IF b = <<>> THEN Clean(a)
    ELSE Clean(a \o <<"/">> \o b)

(***************************************************************************)
(* Inputs: the flags and the environment runMulti reads.                   *)
(***************************************************************************)
StatsJson == <<"s", "t", "a", "t", "s", ".", "j", "s", "o", "n">>
TmpX == <<"/", "t", "m", "p", "/", "x">>
DotData == <<".", "/", "d", "a", "t", "a">>

\* Values of --stats-file.
RunPatterns == {<<>>, StatsJson}
BuildPatterns ==
    { <<>>, StatsJson,
      <<"s", "t", "a", "t", "s">>,
      <<".", "j", "s", "o", "n">>,
      <<"a", ".", "b", ".", "c">>,
      <<"s", ".">>,
      <<"d", "/", "s", ".", "j">>,
      <<"x", ".", "d", "/", "s">>,
      <<".", "/", "s", ".", "j">>,
      <<".", ".", "/", "s", ".", "j">> }

\* Values GetDataDir() returns.
RunBaseDirs == {TmpX}
BuildBaseDirs == {TmpX, DotData}

\* Values of --instances.
RunCounts == (-1 .. MaxRunInstances) \cup {MaxInstances + 1}
BuildCounts == -1 .. (MaxInstances + 1)

\* Values of --psiphon-config: unset, or a path.
ConfigPaths == {"", "config.json"}

\* Values of --max-clients, --bandwidth (Mbps, -1 for unlimited) and of
\* Verbosity().
RunShared == {[maxClients |-> 50, bandwidth |-> 40, verbosity |-> 0]}
SharedValues ==
    [maxClients : {1, 50, 1000}, bandwidth : {-1, 40}, verbosity : {0, 2}]
SharedCounts == -1 .. MaxSharedInstances

NoErr == -1

VARIABLES
    multiInstances,         \* --instances
    multiPsiphonConfig,     \* --psiphon-config
    multiStatsFilePattern,  \* --stats-file
    configFileExists,       \* whether os.Stat finds multiPsiphonConfig
    hasEmbeddedConfig,      \* config.HasEmbeddedConfig()
    baseDataDir,            \* GetDataDir()
    multiMaxClients,        \* --max-clients
    multiBandwidthMbps,     \* --bandwidth
    verbosity,              \* Verbosity()
    registry,               \* collectors registered with prometheus
    created,                \* collectors built so far by the metrics helpers
    lastCall,               \* the latest call of a metrics helper
    lastReturn,             \* what that call returned
    panicked,               \* the panic that ended the process, "" if none
    pc,                     \* position of runMulti
    result,                 \* what runMulti returned: "none" until it returns
    resultCause,            \* the instance error the returned error wraps
    useEmbedded,            \* local of runMulti
    dirs,                   \* directories created so far
    i,                      \* loop counter of the config loop
    instanceConfigs,        \* local of runMulti
    serviceCreated,         \* NewMultiService returned a service
    ctxDone,                \* ctx.Err() != nil
    notifyInstalled,        \* signal.Notify has been called
    sigChan,                \* number of signals buffered in sigChan
    sigCount,               \* signals delivered to the process so far
    listener,               \* position of the listener goroutine
    listenerCancels,        \* calls of cancel() made by the listener
    stdout,                 \* lines printed, in order
    runPc,                  \* position of MultiService.Run
    started,                \* instances Run has started so far
    inst,                   \* state of each instance
    instErr,                \* what each stopped instance returned
    firstErr,               \* Run's record of the first instance error
    runErr,                 \* err of line 161
    stopOrder,              \* instances in the order they terminated
    errBeforeCancel,        \* an instance failed while ctx was not cancelled
    errBeforeSignal         \* an instance failed before any signal was received

inputs == <<multiInstances, multiPsiphonConfig, multiStatsFilePattern,
            configFileExists, hasEmbeddedConfig, baseDataDir,
            multiMaxClients, multiBandwidthMbps, verbosity>>
metricVars == <<registry, created, lastCall, lastReturn, panicked>>
mainVars == <<pc, result, resultCause, useEmbedded, dirs, i, instanceConfigs,
              serviceCreated, runErr>>
sigVars == <<notifyInstalled, sigChan, sigCount, listener, listenerCancels>>
runVars == <<runPc, started, inst, instErr, firstErr, stopOrder, errBeforeCancel,
            errBeforeSignal>>
vars == <<inputs, metricVars, mainVars, sigVars, runVars, ctxDone, stdout>>

Instances == 0 .. (multiInstances - 1)

InitState ==
    /\ pc = "validate"
    /\ result = "none"
    /\ resultCause = NoErr
    /\ useEmbedded = FALSE
    /\ dirs = {}
    /\ i = 0
    /\ instanceConfigs = <<>>
    /\ serviceCreated = FALSE
    /\ ctxDone = FALSE
    /\ notifyInstalled = FALSE
    /\ sigChan = 0
    /\ sigCount = 0
    /\ listener = "none"
    /\ listenerCancels = 0
    /\ stdout = <<>>
    /\ runPc = "idle"
    /\ started = 0
    /\ inst = [k \in Instances |-> "notStarted"]
    /\ instErr = [k \in Instances |-> NoErr]
    /\ firstErr = NoErr
    /\ runErr = NoErr
    /\ stopOrder = <<>>
    /\ errBeforeCancel = FALSE
    /\ errBeforeSignal = FALSE

NoCollector == [kind |-> "none"]

InitMetricState ==
    /\ registry = {}
    /\ created = 0
    /\ lastCall = NoCollector
    /\ lastReturn = NoCollector
    /\ panicked = ""

InitInputs(counts, patterns, baseDirs, shared) ==
    /\ multiInstances \in counts
    /\ multiPsiphonConfig \in ConfigPaths
    /\ multiStatsFilePattern \in patterns
    /\ configFileExists \in BOOLEAN
    /\ multiPsiphonConfig = "" => ~configFileExists
    /\ hasEmbeddedConfig \in BOOLEAN
    /\ baseDataDir \in baseDirs
    /\ \E sh \in shared :
          /\ multiMaxClients = sh.maxClients
          /\ multiBandwidthMbps = sh.bandwidth
          /\ verbosity = sh.verbosity

Init ==
    /\ InitInputs(RunCounts, RunPatterns, RunBaseDirs, RunShared)
    /\ InitState
    /\ InitMetricState

InitBuild ==
    /\ InitInputs(BuildCounts, BuildPatterns, BuildBaseDirs, RunShared)
    /\ InitState
    /\ InitMetricState

InitShared ==
    /\ InitInputs(SharedCounts, RunPatterns, RunBaseDirs, SharedValues)
    /\ InitState
    /\ InitMetricState

(***************************************************************************)
(* runMulti up to the creation of the service (lines 78-136).              *)
(***************************************************************************)
\* The order of the steps before the config loop, with the base directory
\* created before the config source is looked at.
NextStepMkdirFirst(step) ==
    CASE step = "validate" -> "mkdir"
      [] step = "mkdir" -> "source"
      [] step = "source" -> "build"

\* The order of the steps before the config loop: the count (79-82), the
\* config source (84-96), the base directory (98-102), the loop (104-130).
NextStep(step) ==
    CASE step = "validate" -> "source"
      [] step = "source" -> "mkdir"
      [] step = "mkdir" -> "build"

\* An error that is recorded while runMulti carries on to the service.
ReturnErrorFallsThrough(kind) ==
    /\ pc' = "setup"
    /\ result' = kind
    /\ resultCause' = NoErr

\* return <error>: runMulti returns before ctx exists, nothing is deferred.
ReturnError(kind) ==
    /\ pc' = "done"
    /\ result' = kind
    /\ resultCause' = NoErr

\* A validation that lets counts next to the range through.
InstancesOutOfRangeLoose(n) == n < MinInstances - 1 \/ n > MaxInstances + 1

\* multiInstances < 1 || multiInstances > 32
InstancesOutOfRange(n) == n < MinInstances \/ n > MaxInstances

\* Lines 79-82.
Validate ==
    /\ pc = "validate"
    /\ IF InstancesOutOfRange(multiInstances)
       THEN ReturnError("instances must be between 1 and 32")
       ELSE /\ pc' = NextStep("validate")
            /\ UNCHANGED <<result, resultCause>>
    /\ UNCHANGED <<inputs, metricVars, useEmbedded, dirs, i, instanceConfigs, serviceCreated,
                   runErr, sigVars, runVars, ctxDone, stdout>>

\* Lines 84-96.
DetermineSource ==
    /\ pc = "source"
    /\ IF multiPsiphonConfig # ""
       THEN IF ~configFileExists
            THEN /\ ReturnError("psiphon config file not found")
                 /\ UNCHANGED useEmbedded
            ELSE /\ pc' = NextStep("source")
                 /\ UNCHANGED <<result, resultCause, useEmbedded>>
       ELSE IF hasEmbeddedConfig
            THEN /\ useEmbedded' = TRUE
                 /\ pc' = NextStep("source")
                 /\ UNCHANGED <<result, resultCause>>
            ELSE /\ ReturnError("psiphon config required")
                 /\ UNCHANGED useEmbedded
    /\ UNCHANGED <<inputs, metricVars, dirs, i, instanceConfigs, serviceCreated,
                   runErr, sigVars, runVars, ctxDone, stdout>>

\* Lines 98-102: os.MkdirAll succeeds or fails.
MkdirBase ==
    /\ pc = "mkdir"
    /\ \E ok \in BOOLEAN :
          IF ok
          THEN /\ dirs' = dirs \cup {baseDataDir}
               /\ pc' = NextStep("mkdir")
               /\ UNCHANGED <<result, resultCause>>
          ELSE /\ ReturnError("failed to create base data directory")
               /\ UNCHANGED dirs
    /\ UNCHANGED <<inputs, metricVars, useEmbedded, i, instanceConfigs, serviceCreated,
                   runErr, sigVars, runVars, ctxDone, stdout>>

\* A data directory that does not depend on the index.
InstanceDataDirShared(idx) == Join(baseDataDir, SprintfInstanceDir(0))

\* Line 107.
InstanceDataDir(idx) == Join(baseDataDir, SprintfInstanceDir(idx))

\* Lines 110-115.
StatsFile(idx) ==
    IF multiStatsFilePattern # <<>>
    THEN LET ext == Ext(multiStatsFilePattern)
             base == StemOf(multiStatsFilePattern, ext)
         IN  Join(baseDataDir, SprintfStatsName(base, idx, ext))
    ELSE <<>>

\* Options whose limits are a share of the totals.
OptionsDivided(idx) ==
    [ DataDir           |-> InstanceDataDir(idx),
      PsiphonConfigPath |-> multiPsiphonConfig,
      UseEmbeddedConfig |-> useEmbedded,
      MaxClients        |-> multiMaxClients \div multiInstances,
      BandwidthMbps     |-> multiBandwidthMbps \div multiInstances,
      Verbosity         |-> verbosity,
      StatsFile         |-> StatsFile(idx) ]

\* The config.Options literal of lines 117-125.
Options(idx) ==
    [ DataDir           |-> InstanceDataDir(idx),
      PsiphonConfigPath |-> multiPsiphonConfig,
      UseEmbeddedConfig |-> useEmbedded,
      MaxClients        |-> multiMaxClients,
      BandwidthMbps     |-> multiBandwidthMbps,
      Verbosity         |-> verbosity,
      StatsFile         |-> StatsFile(idx) ]

\* config.LoadOrCreate: the configuration it returns for the options.
LoadOrCreate(opts) == opts

\* A loop that stops one instance short.
LoopContinuesShort(idx) == idx < multiInstances - 1

\* Line 106: i < multiInstances
LoopContinues(idx) == idx < multiInstances

\* Lines 106-130: one iteration of the loop, or its exit. LoadOrCreate
\* succeeds or fails; when it succeeds it has created the instance's data
\* directory.
BuildConfig ==
    /\ pc = "build"
    /\ IF LoopContinues(i)
       THEN \E ok \in BOOLEAN :
              IF ok
              THEN /\ instanceConfigs' = Append(instanceConfigs, LoadOrCreate(Options(i)))
                   /\ dirs' = dirs \cup {Options(i).DataDir}
                   /\ i' = i + 1
                   /\ UNCHANGED <<pc, result, resultCause>>
              ELSE /\ ReturnError("failed to create config for instance")
                   /\ UNCHANGED <<instanceConfigs, dirs, i>>
       ELSE /\ pc' = "newService"
            /\ UNCHANGED <<result, resultCause, instanceConfigs, dirs, i>>
    /\ UNCHANGED <<inputs, metricVars, useEmbedded, serviceCreated,
                   runErr, sigVars, runVars, ctxDone, stdout>>

\* conduit.NewMultiService: refuses a list outside 1..32, and may fail.
NewMultiServiceFails(configs, envFails) ==
    \/ Len(configs) < MinInstances
    \/ Len(configs) > MaxInstances
    \/ envFails

\* Lines 132-136.
NewService ==
    /\ pc = "newService"
    /\ \E envFails \in BOOLEAN :
          IF NewMultiServiceFails(instanceConfigs, envFails)
          THEN /\ ReturnError("failed to create multi-instance service")
               /\ UNCHANGED serviceCreated
          ELSE /\ serviceCreated' = TRUE
               /\ pc' = "setup"
               /\ UNCHANGED <<result, resultCause>>
    /\ UNCHANGED <<inputs, metricVars, useEmbedded, dirs, i, instanceConfigs,
                   runErr, sigVars, runVars, ctxDone, stdout>>

NextBuild == Validate \/ DetermineSource \/ MkdirBase \/ BuildConfig

SpecBuild == InitBuild /\ [][NextBuild]_vars

\* The same steps, over the shared per-instance parameters.
SpecShared == InitShared /\ [][NextBuild]_vars

(***************************************************************************)
(* runMulti from the context to the return (lines 138-167).                *)
(***************************************************************************)
\* A cancel() that is called at once instead of deferred.
ContextCancelledAtOnce == TRUE

\* Lines 139-140: the new context is not cancelled, cancel() is deferred.
ContextAfterSetup == FALSE

\* Lines 138-144: context.WithCancel, make(chan os.Signal, 1), signal.Notify.
Setup ==
    /\ pc = "setup"
    /\ pc' = "goListener"
    /\ ctxDone' = ContextAfterSetup
    /\ notifyInstalled' = TRUE
    /\ UNCHANGED <<inputs, metricVars, result, resultCause, useEmbedded, dirs, i, instanceConfigs,
                   serviceCreated, runErr, sigChan, sigCount, listener, listenerCancels,
                   runVars, stdout>>

\* Line 146: the go statement.
GoListener ==
    /\ pc = "goListener"
    /\ pc' = "printStart"
    /\ listener' = "waiting"
    /\ UNCHANGED <<inputs, metricVars, result, resultCause, useEmbedded, dirs, i, instanceConfigs,
                   serviceCreated, runErr, notifyInstalled, sigChan, sigCount,
                   listenerCancels, runVars, ctxDone, stdout>>

\* Lines 152-158.
PrintStart ==
    /\ pc = "printStart"
    /\ pc' = "callRun"
    /\ stdout' = Append(stdout, "Starting instances")
    /\ UNCHANGED <<inputs, metricVars, result, resultCause, useEmbedded, dirs, i, instanceConfigs,
                   serviceCreated, runErr, sigVars, runVars, ctxDone>>

\* Line 161: multiService.Run(ctx) is entered.
CallRun ==
    /\ pc = "callRun"
    /\ pc' = "inRun"
    /\ runPc' = "starting"
    /\ UNCHANGED <<inputs, metricVars, result, resultCause, useEmbedded, dirs, i, instanceConfigs,
                   serviceCreated, runErr, sigVars, started, inst, instErr, firstErr,
                   stopOrder, errBeforeCancel, errBeforeSignal, ctxDone, stdout>>

\* A call that does not wait for Run.
RunNotAwaited == runPc # "idle"

\* Line 161: the call is synchronous, runMulti goes on when Run has returned.
RunHasReturned == runPc = "returned"

\* Line 161: err := multiService.Run(ctx).
RunReturned ==
    /\ pc = "inRun"
    /\ RunHasReturned
    /\ pc' = "check"
    /\ runErr' = firstErr
    /\ UNCHANGED <<inputs, metricVars, result, resultCause, useEmbedded, dirs, i, instanceConfigs,
                   serviceCreated, sigVars, runVars, ctxDone, stdout>>

\* A test that reports every error of Run, cancelled or not.
IsServiceErrorAlways(err, cancelled) == err # NoErr

\* A test that reports no error of Run at all.
IsServiceErrorNever(err, cancelled) == FALSE

\* err != nil && ctx.Err() == nil
IsServiceError(err, cancelled) == err # NoErr /\ ~cancelled

\* A confirmation printed before the error of Run is looked at.
StdoutAlwaysConfirms(failed) == Append(stdout, "All instances stopped.")

\* Lines 161-165: the confirmation is printed on the path that returns nil.
StdoutAfterCheck(failed) ==
    IF failed THEN stdout ELSE Append(stdout, "All instances stopped.")

\* Lines 161-167, with the deferred cancel() of line 140.
CheckResult ==
    /\ pc = "check"
    /\ pc' = "done"
    /\ stdout' = StdoutAfterCheck(IsServiceError(runErr, ctxDone))
    /\ IF IsServiceError(runErr, ctxDone)
       THEN /\ result' = "multi-instance service error"
            /\ resultCause' = runErr
       ELSE /\ result' = "nil"
            /\ UNCHANGED resultCause
    /\ ctxDone' = TRUE
    /\ UNCHANGED <<inputs, metricVars, useEmbedded, dirs, i, instanceConfigs, serviceCreated,
                   runErr, sigVars, runVars>>

(***************************************************************************)
(* The listener goroutine (lines 146-150) and the signals.                 *)
(***************************************************************************)
\* The process is alive until runMulti returns.
Alive == pc # "done"

\* A receive that does not wait for a signal.
SignalPendingAlways == TRUE

\* Line 147: the receive blocks until sigChan holds a signal.
SignalPending == sigChan > 0

\* A listener that cancels without printing the notice.
ListenerSkipsNotice == "printed"

\* Lines 147-148: after the receive comes the notice.
ListenerAfterRecv == "received"

\* Line 147: <-sigChan
ListenerRecv ==
    /\ Alive
    /\ listener = "waiting"
    /\ SignalPending
    /\ sigChan' = IF sigChan > 0 THEN sigChan - 1 ELSE sigChan
    /\ listener' = ListenerAfterRecv
    /\ UNCHANGED <<inputs, metricVars, mainVars, notifyInstalled, sigCount, listenerCancels,
                   runVars, ctxDone, stdout>>

\* Line 148.
ListenerPrint ==
    /\ Alive
    /\ listener = "received"
    /\ stdout' = Append(stdout, "Shutting down all instances...")
    /\ listener' = "printed"
    /\ UNCHANGED <<inputs, metricVars, mainVars, notifyInstalled, sigChan, sigCount,
                   listenerCancels, runVars, ctxDone>>

\* A listener that goes back to wait for the next signal.
ListenerAfterCancelLoops == "waiting"

\* A listener that never calls cancel().
ListenerCancelsNothing == ctxDone

\* Line 149: cancel() marks the context done, once and for all.
CancelledContext == TRUE

\* Line 150: the goroutine ends after its one receive.
ListenerAfterCancel == "exited"

\* Line 149.
ListenerCancel ==
    /\ Alive
    /\ listener = "printed"
    /\ ctxDone' = CancelledContext
    /\ listenerCancels' = listenerCancels + 1
    /\ listener' = ListenerAfterCancel
    /\ UNCHANGED <<inputs, metricVars, mainVars, notifyInstalled, sigChan, sigCount,
                   runVars, stdout>>

\* SIGINT or SIGTERM reaches the process after signal.Notify: the runtime
\* sends it to sigChan without blocking, and drops it when the buffer is full.
Signal ==
    /\ Alive
    /\ notifyInstalled
    /\ sigCount < MaxSignals
    /\ sigCount' = sigCount + 1
    /\ sigChan' = IF sigChan < SigChanCap THEN sigChan + 1 ELSE sigChan
    /\ UNCHANGED <<inputs, metricVars, mainVars, notifyInstalled, listener, listenerCancels,
                   runVars, ctxDone, stdout>>

(***************************************************************************)
(* MultiService.Run and the instances it runs.                             *)
(***************************************************************************)
\* Run starts the next instance, each with the same ctx and its own config.
RunStartInstance ==
    /\ runPc = "starting"
    /\ IF started < Len(instanceConfigs)
       THEN /\ inst' = [inst EXCEPT ![started] = "running"]
            /\ started' = started + 1
            /\ UNCHANGED runPc
       ELSE /\ runPc' = "waiting"
            /\ UNCHANGED <<inst, started>>
    /\ UNCHANGED <<inputs, metricVars, mainVars, sigVars, instErr, firstErr, stopOrder,
                   errBeforeCancel, errBeforeSignal, ctxDone, stdout>>

\* Run keeps the first error by termination order.
RecordError(first, err) == IF first = NoErr THEN err ELSE first

\* Instance k returns err (NoErr, or its own error k).
InstanceReturns(k, err) ==
    /\ inst[k] = "running"
    /\ inst' = [inst EXCEPT ![k] = "stopped"]
    /\ instErr' = [instErr EXCEPT ![k] = err]
    /\ firstErr' = RecordError(firstErr, err)
    /\ stopOrder' = Append(stopOrder, k)
    /\ errBeforeCancel' = (errBeforeCancel \/ (err # NoErr /\ ~ctxDone))
    /\ errBeforeSignal' = (errBeforeSignal \/ (err # NoErr /\ sigCount = 0))
    /\ UNCHANGED <<inputs, metricVars, mainVars, sigVars, runPc, started, ctxDone, stdout>>

\* An instance stops on its own: an internal error, or an internal stop
\* condition.
InstanceStops ==
    /\ ~ctxDone
    /\ \E k \in Instances : \E err \in {NoErr, k} : InstanceReturns(k, err)

\* An instance returns after the cancellation signal has fired.
InstanceCancelled ==
    /\ ctxDone
    /\ \E k \in Instances : \E err \in {NoErr, k} : InstanceReturns(k, err)

\* Run waits for all the instances it started.
AllStopped == \A k \in Instances : inst[k] = "stopped"

\* Run returns its first error when every instance has terminated.
RunReturn ==
    /\ runPc = "waiting"
    /\ AllStopped
    /\ runPc' = "returned"
    /\ UNCHANGED <<inputs, metricVars, mainVars, sigVars, started, inst, instErr, firstErr,
                   stopOrder, errBeforeCancel, errBeforeSignal, ctxDone, stdout>>

(***************************************************************************)
(* Specifications.                                                         *)
(***************************************************************************)
Next ==
    \/ Validate
    \/ DetermineSource
    \/ MkdirBase
    \/ BuildConfig
    \/ NewService
    \/ Setup
    \/ GoListener
    \/ PrintStart
    \/ CallRun
    \/ RunReturned
    \/ CheckResult
    \/ ListenerRecv
    \/ ListenerPrint
    \/ ListenerCancel
    \/ Signal
    \/ RunStartInstance
    \/ InstanceStops
    \/ InstanceCancelled
    \/ RunReturn

Spec == Init /\ [][Next]_vars

\* The goroutines of the program are scheduled fairly, and an instance
\* returns once the cancellation signal has fired; signals, and instances
\* that stop on their own, may or may not happen.
Fairness ==
    /\ WF_vars(Validate) /\ WF_vars(DetermineSource) /\ WF_vars(MkdirBase)
    /\ WF_vars(BuildConfig) /\ WF_vars(NewService) /\ WF_vars(Setup)
    /\ WF_vars(GoListener) /\ WF_vars(PrintStart) /\ WF_vars(CallRun)
    /\ WF_vars(RunReturned) /\ WF_vars(CheckResult)
    /\ WF_vars(ListenerRecv) /\ WF_vars(ListenerPrint) /\ WF_vars(ListenerCancel)
    /\ WF_vars(RunStartInstance) /\ WF_vars(RunReturn)
    /\ WF_vars(InstanceCancelled)

FairSpec == Spec /\ Fairness

(***************************************************************************)
(* The metrics helpers (cli/internal/metrics/utils.go) and the default     *)
(* prometheus registry they register with.                                 *)
(***************************************************************************)
\* GaugeOpts: the name, the help text and the value of the constant label;
\* a gauge vector also has its label names.
MetricNames == {"m1", "m2"}
MetricHelps == {"h1", "h2"}
ConstValues == {"a", "b"}
VecLabels == {<<>>, <<"l">>}

\* A collector as prometheus.NewGauge, NewGaugeVec or NewGaugeFunc builds it;
\* id tells one built collector from another.
Collector(kind, name, help, const, labels) ==
    [kind |-> kind, name |-> name, help |-> help, const |-> const,
     labels |-> labels, id |-> created + 1]

\* The registry tells descriptors apart by name and constant label values,
\* and wants one help text and one set of label names per name.
DescID(c) == <<c.name, c.const>>
DimHash(c) == <<c.help, c.labels>>

\* prometheus.Register: an error for a name whose help or label names differ
\* from the registered ones, AlreadyRegisteredError with the existing
\* collector for a registered descriptor, nil otherwise.
Register(c) ==
    IF \E e \in registry : e.name = c.name /\ DimHash(e) # DimHash(c)
    THEN [err |-> "inconsistent"]
    ELSE IF \E e \in registry : DescID(e) = DescID(c)
    THEN [err |-> "already",
          existing |-> CHOOSE e \in registry : DescID(e) = DescID(c)]
    ELSE [err |-> "nil"]

\* A helper that returns the collector it has just built.
ReturnsNewCollector(existing, fresh) == fresh

\* Lines 17, 37, 57: ev = are.ExistingCollector
ReusedCollector(existing, fresh) == existing

\* Line 17: are.ExistingCollector.(prometheus.Gauge)
IsGauge(e) == e.kind = "Gauge"

\* Line 37: are.ExistingCollector.(*prometheus.GaugeVec)
IsGaugeVec(e) == e.kind = "GaugeVec"

\* Line 57: are.ExistingCollector.(prometheus.GaugeFunc), the interface of
\* Metric and Collector, which a plain gauge implements as well.
IsGaugeFunc(e) == e.kind \in {"Gauge", "GaugeFunc"}

\* Lines 13-26, 33-46, 53-66: register ev, reuse the existing collector when
\* it passes the type assertion, panic otherwise.
RegisterOrReuse(ev, asserted) ==
    LET out == Register(ev)
    IN  /\ created' = created + 1
        /\ lastCall' = ev
        /\ IF out.err = "nil"
           THEN /\ registry' = registry \cup {ev}
                /\ lastReturn' = ev
                /\ panicked' = ""
           ELSE IF out.err = "already"
           THEN /\ registry' = registry
                /\ IF asserted = "Gauge" THEN IsGauge(out.existing)
                   ELSE IF asserted = "GaugeVec" THEN IsGaugeVec(out.existing)
                   ELSE IsGaugeFunc(out.existing)
                /\ lastReturn' = ReusedCollector(out.existing, ev)
                /\ panicked' = ""
           ELSE FALSE

RegisterPanics(ev, asserted) ==
    LET out == Register(ev)
    IN  /\ created' = created + 1
        /\ lastCall' = ev
        /\ registry' = registry
        /\ lastReturn' = NoCollector
        /\ IF out.err = "inconsistent"
           THEN panicked' = "register error"
           ELSE /\ out.err = "already"
                /\ ~(IF asserted = "Gauge" THEN IsGauge(out.existing)
                      ELSE IF asserted = "GaugeVec" THEN IsGaugeVec(out.existing)
                      ELSE IsGaugeFunc(out.existing))
                /\ panicked' = "different metric type registration"

\* The process goes on until a panic.
CanRegister == panicked = "" /\ created < MaxRegistrations

\* Lines 10-27.
newGauge ==
    /\ CanRegister
    /\ \E n \in MetricNames, h \in MetricHelps, c \in ConstValues :
          LET ev == Collector("Gauge", n, h, c, <<>>)
          IN  RegisterOrReuse(ev, "Gauge") \/ RegisterPanics(ev, "Gauge")
    /\ UNCHANGED <<inputs, mainVars, sigVars, runVars, ctxDone, stdout>>

\* Lines 30-47.
newGaugeVec ==
    /\ CanRegister
    /\ \E n \in MetricNames, h \in MetricHelps, c \in ConstValues, l \in VecLabels :
          LET ev == Collector("GaugeVec", n, h, c, l)
          IN  RegisterOrReuse(ev, "GaugeVec") \/ RegisterPanics(ev, "GaugeVec")
    /\ UNCHANGED <<inputs, mainVars, sigVars, runVars, ctxDone, stdout>>

\* Lines 50-67.
newGaugeFunc ==
    /\ CanRegister
    /\ \E n \in MetricNames, h \in MetricHelps, c \in ConstValues :
          LET ev == Collector("GaugeFunc", n, h, c, <<>>)
          IN  RegisterOrReuse(ev, "GaugeFunc") \/ RegisterPanics(ev, "GaugeFunc")
    /\ UNCHANGED <<inputs, mainVars, sigVars, runVars, ctxDone, stdout>>

InitMetrics ==
    /\ InitInputs({MinInstances}, {<<>>}, RunBaseDirs, RunShared)
    /\ multiPsiphonConfig = ""
    /\ hasEmbeddedConfig
    /\ InitState
    /\ InitMetricState

NextMetrics == newGauge \/ newGaugeVec \/ newGaugeFunc

SpecMetrics == InitMetrics /\ [][NextMetrics]_vars

(***************************************************************************)
(* Properties.                                                             *)
(***************************************************************************)
ServiceError == "multi-instance service error"
ShutdownNotice == "Shutting down all instances..."
StoppedNotice == "All instances stopped."

Printed(line) == \E n \in 1 .. Len(stdout) : stdout[n] = line
TimesPrinted(line) == Cardinality({n \in 1 .. Len(stdout) : stdout[n] = line})
SomeInstanceFailed == \E k \in Instances : instErr[k] # NoErr

\* The error of the first instance, by termination order, that failed.
RECURSIVE FirstFailed(_)
FirstFailed(order) ==
    IF order = <<>> THEN NoErr
    ELSE IF instErr[Head(order)] # NoErr THEN instErr[Head(order)]
    ELSE FirstFailed(Tail(order))

\* C1: an instance error raised before any termination signal was received
\* (so while no cancellation was requested) is never dropped: whenever
\* runMulti has returned after such an error, it returned the failure, also
\* when a termination signal arrived afterwards.
C1_ErrorNeverDropped ==
    (pc = "done" /\ errBeforeSignal) => result = ServiceError

\* C2: when the listener cancels before any instance has failed, runMulti
\* returns nil and its last line is "All instances stopped.", whatever the
\* instances return afterwards.
C2_CancelFirstIsClean ==
    (pc = "done" /\ listenerCancels > 0 /\ ~errBeforeCancel)
        => /\ result = "nil"
           /\ stdout # <<>>
           /\ stdout[Len(stdout)] = StoppedNotice

C2_Witness ==
    /\ pc = "done"
    /\ listenerCancels > 0
    /\ ~errBeforeCancel
    /\ SomeInstanceFailed
    /\ result = "nil"

\* C3: when cancellation is never triggered and an instance fails, runMulti
\* returns the service error, which wraps the error of the first instance
\* that failed, by termination order.
C3_FailureCarriesFirstError ==
    (pc = "done" /\ listenerCancels = 0 /\ SomeInstanceFailed)
        => /\ result = ServiceError
           /\ resultCause # NoErr
           /\ resultCause = FirstFailed(stopOrder)

C3_Witness ==
    /\ pc = "done"
    /\ listenerCancels = 0
    /\ multiInstances = 2
    /\ \A k \in Instances : instErr[k] # NoErr
    /\ stopOrder = <<1, 0>>
    /\ result = ServiceError
    /\ resultCause = 1

\* C4: once runMulti has returned, or has printed "All instances stopped.",
\* no instance is running, and if Run was called every one of the N
\* instances has been started and has terminated.
C4_NoReturnWhileRunning ==
    (pc = "done" \/ Printed(StoppedNotice))
        => \A k \in Instances :
              /\ inst[k] # "running"
              /\ runPc # "idle" => inst[k] = "stopped"

C4_Witness ==
    /\ pc = "done"
    /\ multiInstances = 2
    /\ runPc = "returned"
    /\ \A k \in Instances : inst[k] = "stopped"
    /\ Printed(StoppedNotice)

\* C5: however many termination signals arrive, the shutdown notice is
\* printed at most once, the listener cancels at most once, and sigChan never
\* holds more than its capacity (a signal that finds it full is dropped, not
\* blocked on); once the listener has exited nothing further is printed or
\* cancelled by it.
C5_ShutdownAtMostOnce ==
    /\ TimesPrinted(ShutdownNotice) <= 1
    /\ listenerCancels <= 1
    /\ sigChan <= SigChanCap
    /\ listenerCancels = 1 => (ctxDone /\ listener = "exited")

C5_Witness ==
    /\ sigCount >= 2
    /\ listenerCancels = 1
    /\ listener = "exited"
    /\ TimesPrinted(ShutdownNotice) = 1
    /\ sigChan = SigChanCap
    /\ pc # "done"

\* C6: once a termination signal has been received (the listener being
\* installed), runMulti eventually returns nil.
C6_SignalLeadsToNil ==
    (sigCount > 0) ~> (pc = "done" /\ result = "nil")

\* C6, amended: once a termination signal has been received, runMulti
\* eventually returns with every instance stopped, and it returns nil unless
\* an instance had failed before the cancellation fired.
C6_SignalLeadsToReturn ==
    (sigCount > 0)
        ~> (/\ pc = "done"
            /\ AllStopped
            /\ (result = "nil" \/ (errBeforeCancel /\ result = ServiceError)))

C6_Witness ==
    /\ pc = "done"
    /\ sigCount > 0
    /\ listenerCancels = 1
    /\ multiInstances = 2
    /\ AllStopped
    /\ result = "nil"

\* C7: for an instance count outside 1..32 runMulti never leaves its first
\* check, returns the configuration error, and has no side effect: no
\* directory, no config, no listener, no instance.
C7_InvalidCountNoSideEffects ==
    (multiInstances < 1 \/ multiInstances > 32)
        => /\ pc \in {"validate", "done"}
           /\ pc = "done" => result = "instances must be between 1 and 32"
           /\ dirs = {}
           /\ instanceConfigs = <<>>
           /\ ~serviceCreated
           /\ ~notifyInstalled
           /\ listener = "none"
           /\ started = 0
           /\ \A k \in Instances : inst[k] = "notStarted"

C7_Witness ==
    /\ multiInstances = 33
    /\ pc = "done"
    /\ result = "instances must be between 1 and 32"

\* The configuration built for index idx (instanceConfigs is 1-based).
ConfigOf(idx) == instanceConfigs[idx + 1]
BuiltIndexes == 0 .. (Len(instanceConfigs) - 1)

\* C8: the configs built so far have pairwise distinct data directories and,
\* when a stats pattern is given, pairwise distinct stats file paths.
C8_DistinctPaths ==
    \A a, b \in BuiltIndexes :
        a # b => /\ ConfigOf(a).DataDir # ConfigOf(b).DataDir
                 /\ multiStatsFilePattern # <<>>
                        => ConfigOf(a).StatsFile # ConfigOf(b).StatsFile

C8_Witness ==
    /\ Len(instanceConfigs) = 32
    /\ multiStatsFilePattern = StatsJson
    /\ ConfigOf(1).StatsFile # ConfigOf(11).StatsFile
    /\ ConfigOf(1).DataDir # ConfigOf(11).DataDir

\* The extension of a pattern, stated without the scan: the pattern's final
\* element has no dot and the extension is empty, or the extension is the
\* suffix that starts with a dot and holds no other dot and no separator.
FinalElementHasDot(p) ==
    \E j \in 1 .. Len(p) : p[j] = "." /\ \A m \in j .. Len(p) : p[m] # "/"
ExtLenOf(p) ==
    CHOOSE n \in 0 .. Len(p) :
        IF FinalElementHasDot(p)
        THEN /\ n > 0
             /\ p[Len(p) - n + 1] = "."
             /\ \A m \in (Len(p) - n + 2) .. Len(p) : p[m] \notin {".", "/"}
        ELSE n = 0
ExpectedExt(p) == SubSeq(p, Len(p) - ExtLenOf(p) + 1, Len(p))
ExpectedStem(p) == SubSeq(p, 1, Len(p) - ExtLenOf(p))

\* baseDir/instance-<i> and baseDir/<stem>-instance-<i><ext>, as paths.
ExpectedDataDir(idx) ==
    Clean(baseDataDir \o <<"/", "i", "n", "s", "t", "a", "n", "c", "e", "-">> \o Dec(idx))
ExpectedStatsFile(idx) ==
    Clean(baseDataDir \o <<"/">> \o ExpectedStem(multiStatsFilePattern)
            \o <<"-", "i", "n", "s", "t", "a", "n", "c", "e", "-">> \o Dec(idx) \o ExpectedExt(multiStatsFilePattern))

HelpTextStatsFile(idx) ==
    Clean(baseDataDir \o <<"/", "i", "n", "s", "t", "a", "n", "c", "e", "-">> \o Dec(idx) \o <<"-">> \o multiStatsFilePattern)

\* C10: with a pattern, the stats file of instance i is named by the
\* instance prefix followed by the pattern (stats.json gives
\* instance-0-stats.json for instance 0).
C10_HelpTextName ==
    \A idx \in BuiltIndexes :
        multiStatsFilePattern # <<>>
            => ConfigOf(idx).StatsFile = HelpTextStatsFile(idx)

ConfigErrors ==
    { "instances must be between 1 and 32",
      "psiphon config file not found",
      "psiphon config required",
      "failed to create base data directory",
      "failed to create config for instance",
      "failed to create multi-instance service" }

\* C11: when runMulti has returned a configuration error no instance was
\* ever started and Run was never called; and Run is only ever entered with
\* the service created from all N configs, no error returned so far.
C11_ConfigErrorStartsNothing ==
    /\ result \in ConfigErrors
          => /\ pc = "done"
             /\ runPc = "idle"
             /\ started = 0
             /\ \A k \in Instances : inst[k] = "notStarted"
    /\ (runPc # "idle" \/ started > 0)
          => /\ serviceCreated
             /\ Len(instanceConfigs) = multiInstances
             /\ result \notin ConfigErrors

C11_Witness ==
    /\ pc = "done"
    /\ result = "failed to create config for instance"
    /\ multiInstances = 2
    /\ Len(instanceConfigs) = 1
    /\ runPc = "idle"

\* A call of a metrics helper has just been made.
Called == created' = created + 1

\* C12: a call for a name that is already registered with the same type
\* returns the registered collector, leaves the registry as it was and does
\* not panic.
C12_SameNameAndTypeReused ==
    [][(/\ Called
        /\ \E e \in registry : e.name = lastCall'.name /\ e.kind = lastCall'.kind)
          => /\ panicked' = ""
             /\ registry' = registry
             /\ lastReturn' \in registry
             /\ lastReturn'.name = lastCall'.name
             /\ lastReturn'.kind = lastCall'.kind]_vars

\* C12, amended: a call for a name that is already registered with the same
\* type, the same help text, the same constant labels and the same label
\* names returns that registered collector, leaves the registry as it was
\* and does not panic.
C12_SameDescriptorReused ==
    [][\A e \in registry :
          (/\ Called
           /\ e.kind = lastCall'.kind
           /\ e.name = lastCall'.name
           /\ e.help = lastCall'.help
           /\ e.const = lastCall'.const
           /\ e.labels = lastCall'.labels)
             => /\ panicked' = ""
                /\ registry' = registry
                /\ lastReturn' = e]_vars

C12_Witness ==
    /\ created >= 2
    /\ panicked = ""
    /\ lastReturn \in registry
    /\ lastReturn.id < lastCall.id
    /\ lastReturn.kind = lastCall.kind
    /\ [lastReturn EXCEPT !.id = 0] = [lastCall EXCEPT !.id = 0]
    /\ Cardinality(registry) = 1

\* C13: a call for a descriptor that is already registered under another
\* type panics, returns no collector and leaves the registry as it was.
C13_OtherTypePanics ==
    [][\A e \in registry :
          (/\ Called
           /\ e.kind # lastCall'.kind
           /\ e.name = lastCall'.name
           /\ e.help = lastCall'.help
           /\ e.const = lastCall'.const
           /\ e.labels = lastCall'.labels)
             => /\ panicked' # ""
                /\ lastReturn' = NoCollector
                /\ registry' = registry]_vars

\* C14: "All instances stopped." is printed exactly when runMulti has
\* returned nil, at most once, and never in a run that returns the
\* multi-instance service error.
C14_ConfirmationIffNil ==
    /\ Printed(StoppedNotice) <=> (pc = "done" /\ result = "nil")
    /\ result = ServiceError => ~Printed(StoppedNotice)
    /\ TimesPrinted(StoppedNotice) <= 1
    /\ result = "nil" => runPc = "returned"

C14_Witness ==
    /\ pc = "done"
    /\ result = ServiceError
    /\ ~Printed(StoppedNotice)
    /\ Printed(ShutdownNotice)

\* C15: while runMulti has not returned, the context is cancelled only by
\* the listener, after a received signal: an instance that fails leaves the
\* context of its siblings uncancelled.
C15_OnlySignalCancels ==
    (Alive /\ ctxDone) => (listenerCancels = 1 /\ sigCount >= 1)

C15_Witness ==
    /\ pc = "inRun"
    /\ multiInstances = 2
    /\ inst[0] = "stopped" /\ instErr[0] # NoErr
    /\ inst[1] = "running"
    /\ ~ctxDone
    /\ sigCount = 0

\* C16: Run starts one instance per config, in all exactly N for the N
\* configs of the N requested instances; every running instance can stop
\* whatever the others do, and once the context is cancelled every running
\* instance can return on it.
C16_OneInstancePerConfig ==
    /\ started <= Len(instanceConfigs)
    /\ \A k \in Instances : inst[k] # "notStarted" <=> k < started
    /\ runPc \in {"waiting", "returned"}
          => /\ started = multiInstances
             /\ Len(instanceConfigs) = multiInstances
    /\ \A k \in Instances :
          inst[k] = "running"
             => /\ ENABLED InstanceReturns(k, NoErr)
                /\ ctxDone => ENABLED InstanceCancelled

C16_Witness ==
    /\ runPc = "waiting"
    /\ multiInstances = 2
    /\ started = 2
    /\ ctxDone
    /\ inst[0] = "running"
    /\ inst[1] = "running"

\* The lifecycle of one run: 0 before the service exists, 1 created,
\* 2 running, 3 a terminal outcome.
Lifecycle ==
    IF pc = "done" THEN 3
    ELSE IF runPc # "idle" THEN 2
    ELSE IF serviceCreated THEN 1
    ELSE 0

\* C17: when every instance has terminated without error and no signal was
\* received, runMulti returns nil, with the confirmation and without the
\* shutdown notice; the lifecycle never moves backwards and a returned
\* result never changes.
C17_CompletedAndForwardOnly ==
    /\ [](( /\ pc = "done"
             /\ runPc = "returned"
             /\ sigCount = 0
             /\ ~SomeInstanceFailed)
              => /\ result = "nil"
                 /\ ~Printed(ShutdownNotice)
                 /\ Printed(StoppedNotice))
    /\ [][/\ Lifecycle' >= Lifecycle
          /\ Lifecycle' <= Lifecycle + 1 \/ pc' = "done"
          /\ result # "none" => result' = result]_vars

C17_Witness ==
    /\ pc = "done"
    /\ runPc = "returned"
    /\ multiInstances = 2
    /\ sigCount = 0
    /\ ~SomeInstanceFailed
    /\ result = "nil"

\* A config without the two paths that are meant to differ.
SharedPart(cfg) == [cfg EXCEPT !.DataDir = <<>>, !.StatsFile = <<>>]

\* C18: every config built carries the max clients, the bandwidth limit,
\* the verbosity and the network config source as supplied, whatever N and
\* the index; two configs differ in dataDir and statsFilePath only.
C18_SharedParametersVerbatim ==
    /\ \A idx \in BuiltIndexes :
          /\ ConfigOf(idx).MaxClients = multiMaxClients
          /\ ConfigOf(idx).BandwidthMbps = multiBandwidthMbps
          /\ ConfigOf(idx).Verbosity = verbosity
          /\ ConfigOf(idx).PsiphonConfigPath = multiPsiphonConfig
          /\ ConfigOf(idx).UseEmbeddedConfig
                <=> (multiPsiphonConfig = "" /\ hasEmbeddedConfig)
    /\ \A a, b \in BuiltIndexes :
          SharedPart(ConfigOf(a)) = SharedPart(ConfigOf(b))

C18_Witness ==
    /\ Len(instanceConfigs) = 3
    /\ multiMaxClients = 1000
    /\ multiBandwidthMbps = 40
    /\ verbosity = 2
    /\ ConfigOf(2).MaxClients = 1000
    /\ ConfigOf(0).DataDir # ConfigOf(2).DataDir

\* C19: the listener has printed the shutdown notice before it cancels, the
\* notice is printed only after a received signal, and so the cancel()
\* deferred by runMulti never prints it.
C19_NoticeBeforeCancel ==
    /\ listenerCancels > 0 => Printed(ShutdownNotice)
    /\ Printed(ShutdownNotice) <=> listener \in {"printed", "exited"}
    /\ Printed(ShutdownNotice) => sigCount > 0
    /\ (pc = "done" /\ notifyInstalled /\ listener \in {"waiting", "received"})
          => (ctxDone /\ listenerCancels = 0 /\ ~Printed(ShutdownNotice))

C19_Witness ==
    /\ listener = "printed"
    /\ Printed(ShutdownNotice)
    /\ ~ctxDone
    /\ listenerCancels = 0
    /\ pc = "inRun"

====
